---- MODULE Spec2Model ----
(***************************************************************************)
(* Model of the SEC EDGAR ingestion pipeline of FINFILES                   *)
(* (data_ingestion::FinancialDataLoader::load_sec_data_for_ticker).        *)
(*                                                                         *)
(* Strings are sequences of one-character strings, so that case folding,   *)
(* concatenation and lexicographic comparison are computed.  Option<T> is  *)
(* a sequence of length 0 (None) or 1 (Some).  f64 values are exact        *)
(* rationals <<numerator, denominator>> in lowest terms.                   *)
(***************************************************************************)
EXTENDS Integers, Sequences, FiniteSets, TLC

(***************************************************************************)
(* Bounds of the model.                                                    *)
(***************************************************************************)
\* Largest number of entries of the bulk lookup document.
MaxEntries == 2
\* Largest number of entries of the filing index.
MaxForms == 2
\* Largest number of observations appended to a seed fact document.
MaxExtra == 1

(***************************************************************************)
(* Strings.                                                                *)
(***************************************************************************)
None == <<>>
Some(x) == <<x>>

\* u8::to_ascii_lowercase on the letters the model uses.
ToAsciiLowercase(c) ==
    CASE c = "A" -> "a"
      [] c = "B" -> "b"
      [] c = "C" -> "c"
      [] c = "X" -> "x"
      [] OTHER -> c

\* A faulty variant: it compares the bytes as they are (a case-sensitive ==).
EqIgnoreAsciiCaseExact(a, b) == a = b

\* str::eq_ignore_ascii_case
EqIgnoreAsciiCase(a, b) ==
    /\ Len(a) = Len(b)
    /\ \A i \in 1..Len(a) : ToAsciiLowercase(a[i]) = ToAsciiLowercase(b[i])

\* The byte value of a character (ASCII).
Byte(c) ==
    CASE c = "-" -> 45
      [] c = "0" -> 48
      [] c = "1" -> 49
      [] c = "2" -> 50
      [] c = "3" -> 51
      [] c = "4" -> 52
      [] c = "A" -> 65
      [] c = "B" -> 66
      [] c = "C" -> 67
      [] c = "F" -> 70
      [] c = "K" -> 75
      [] c = "Q" -> 81
      [] c = "X" -> 88
      [] c = "Y" -> 89
      [] c = "_" -> 95
      [] c = "a" -> 97
      [] c = "b" -> 98
      [] c = "c" -> 99
      [] c = "k" -> 107
      [] OTHER -> 120

RECURSIVE StrLess(_, _)
\* <str as Ord>::cmp(a, b) = Less: bytewise lexicographic order.
StrLess(a, b) ==
    IF b = <<>> THEN FALSE
    ELSE IF a = <<>> THEN TRUE
    ELSE IF Byte(Head(a)) # Byte(Head(b)) THEN Byte(Head(a)) < Byte(Head(b))
    ELSE StrLess(Tail(a), Tail(b))

(***************************************************************************)
(* f64 values as exact rationals.                                          *)
(***************************************************************************)
Abs(n) == IF n < 0 THEN -n ELSE n

RECURSIVE Gcd(_, _)
Gcd(a, b) == IF b = 0 THEN a ELSE Gcd(b, a % b)

\* The rational n/d (d > 0) in lowest terms.
Rat(n, d) ==
    LET g == Gcd(Abs(n), d)
    IN  IF n = 0 THEN <<0, 1>> ELSE <<n \div g, d \div g>>

\* The f64 of a JSON integer.
F64(n) == Rat(n, 1)

Zero == Rat(0, 1)

(***************************************************************************)
(* HashMap helpers.  A HashMap is a function on its key set; its iteration *)
(* order is not specified, so every loop over one takes an arbitrary       *)
(* permutation of the keys.                                                *)
(***************************************************************************)
EmptyMap == <<>>

MapGet(f, k, default) == IF k \in DOMAIN f THEN f[k] ELSE default

MapInsert(f, k, v) == [x \in DOMAIN f \cup {k} |-> IF x = k THEN v ELSE f[x]]

\* Every order in which the elements of S can be visited.
Perms(S) ==
    {s \in [1..Cardinality(S) -> S] : \A i, j \in 1..Cardinality(S) : s[i] = s[j] => i = j}

Range(s) == {s[i] : i \in 1..Len(s)}

(***************************************************************************)
(* The remote documents the model draws from.                              *)
(***************************************************************************)
\* Tickers the user may type.
Tickers == {<<"a", "b">>, <<"A", "B">>, <<"A">>}

\* Tickers of the entries of the bulk lookup document.
TableTickers == {<<"A", "b">>, <<"A", "B", "C">>}

\* Regulatory identifiers: shorter than, as long as and longer than the 10 characters
\* of the path.
Ciks ==
    {<<"1", "2">>, <<"1", "2", "3", "4", "1", "2", "3", "4", "1", "2">>,
     <<"1", "2", "3", "4", "1", "2", "3", "4", "1", "2", "3">>}

\* struct CikEntry.  No ticker of the model matches the entries of "ABC", so their
\* identifier is never used: they carry the short one.
CikEntry ==
    {e \in [cik_str : Ciks, ticker : TableTickers, title : {<<"X">>}] :
        e.ticker = <<"A", "B", "C">> => Len(e.cik_str) = 2}

KeyNames == <<"0", "1", "2", "3">>

\* HashMap<String, CikEntry>: the bulk lookup documents of at most MaxEntries entries.
CikMaps ==
    UNION {[{KeyNames[i] : i \in 1..n} -> CikEntry] : n \in 0..MaxEntries}

\* Form types of the filing index; only the first two qualify.
FormTypes == {"10-K", "10-Q", "10-K/A"}

\* RecentFilings.form: the filing indexes of at most MaxForms entries.
FormLists == UNION {[1..n -> FormTypes] : n \in 0..MaxForms}

\* Outcomes of RequestBuilder::send: a response, or an Err of reqwest.
SendOutcomes == {"send_ok", "send_connect_fail", "send_timeout"}

SendFailures == {"send_connect_fail", "send_timeout"}

\* Outcomes of Response::json besides a decoded document: the body is not the
\* expected JSON, or the client's 20 s timeout fires while the body is read.
BodyFailures == {"body_parse_fail", "body_timeout"}

(***************************************************************************)
(* Fact documents: taxonomy -> metric -> unit -> Vec<FactUnit>.            *)
(***************************************************************************)
Taxonomies == {"us-gaap", "ifrs-full"}

MetricNames == {<<"A">>, <<"A", "_", "B">>}

UnitNames == {<<"C">>, <<"B", "_", "C">>}

FY == <<"F", "Y">>
Q1 == <<"Q", "1">>
Q2 == <<"Q", "2">>
Q3 == <<"Q", "3">>
Q4 == <<"Q", "4">>

Periods == {FY, Q1, Q2, Q3, Q4}

\* Raw values of the fact document (val): 2.0e9 and 0.5e9.
RawVals == {2000000000, 500000000}

\* struct FactUnit { fiscal_period: Option<String>, value: Option<f64> }
FactUnit(p, v) == [fiscal_period |-> p, value |-> v]

CompleteObs == {FactUnit(Some(p), Some(F64(v))) : p \in Periods, v \in RawVals}

\* Observations that lack the fiscal period, the value, or both.
IncompleteObs ==
    {FactUnit(None, Some(F64(2000000000))), FactUnit(Some(Q4), None), FactUnit(None, None)}

Observations == CompleteObs \cup IncompleteObs

Obs(p, n) == FactUnit(Some(p), Some(F64(n)))

\* The document d with the observation o appended to the list of (t, m, u).
AddObs(d, t, m, u, o) ==
    LET tax == MapGet(d, t, EmptyMap)
        fact == MapGet(tax, m, EmptyMap)
        list == MapGet(fact, u, <<>>)
    IN  MapInsert(d, t, MapInsert(tax, m, MapInsert(fact, u, Append(list, o))))

\* One taxonomy t with one metric m, one unit u and the observation list l.
OneList(t, m, u, l) == MapInsert(EmptyMap, t, MapInsert(EmptyMap, m, MapInsert(EmptyMap, u, l)))

\* Seed documents: no taxonomy at all; a us-gaap taxonomy without a metric; four
\* periods out of order in one list; five periods over two metrics; a taxonomy
\* other than us-gaap alone.
SeedDocs ==
    { EmptyMap,
      MapInsert(EmptyMap, "us-gaap", EmptyMap),
      OneList("us-gaap", <<"A">>, <<"C">>,
              <<Obs(Q2, 2000000000), Obs(Q1, 500000000), Obs(Q3, 500000000),
                Obs(FY, 2000000000)>>),
      AddObs(AddObs(AddObs(
          OneList("us-gaap", <<"A", "_", "B">>, <<"C">>,
                  <<Obs(Q3, 500000000), Obs(Q4, 2000000000), Obs(Q1, 2000000000)>>),
          "us-gaap", <<"A">>, <<"B", "_", "C">>, Obs(FY, 500000000)),
          "us-gaap", <<"A">>, <<"B", "_", "C">>, Obs(Q3, 2000000000)),
          "us-gaap", <<"A">>, <<"B", "_", "C">>, Obs(Q2, 2000000000)),
      OneList("ifrs-full", <<"A">>, <<"C">>, <<Obs(Q1, 2000000000), Obs(Q2, 500000000)>>) }

\* The documents reached from D by appending one observation anywhere, and D.
Extend(D) ==
    D \cup {AddObs(d, t, m, u, o) :
              d \in D, t \in Taxonomies, m \in MetricNames, u \in UnitNames, o \in Observations}

RECURSIVE ExtendN(_, _)
ExtendN(D, n) == IF n = 0 THEN D ELSE ExtendN(Extend(D), n - 1)

\* The fact documents of the normalizer's specification.
FactDocs == ExtendN(SeedDocs, MaxExtra)

\* The fact documents the pipeline's last request may receive.
WireDocs == SeedDocs

(***************************************************************************)
(* The normalizer: lines 1031-1083 of load_sec_data_for_ticker.            *)
(***************************************************************************)
\* The divisor of "val / 1_000_000_000.0".
Billion == 1000000000

\* The number of quarters kept by take(4).
MaxQuarters == 4

\* val / 1_000_000_000.0
Billions(val) == Rat(val[1], val[2] * Billion)

\* A faulty variant: the key is the metric name alone.
MetricKeyBare(metric, currency) == metric

\* format!("{}_{}", metric, currency)
MetricKey(metric, currency) == metric \o <<"_">> \o currency

\* A faulty variant: it reads every taxonomy of the document, whatever its key.
SelectedTaxonomyAny(facts) ==
    IF DOMAIN facts = {} THEN None
    ELSE Some(facts[CHOOSE t \in DOMAIN facts : TRUE])

\* facts.facts.get("us-gaap")
SelectedTaxonomy(facts) ==
    IF "us-gaap" \in DOMAIN facts THEN Some(facts["us-gaap"]) ELSE None

\* The state of the extraction loop: quarter_set and metric_map.
NoFacts == [quarter_set |-> {}, metric_map |-> EmptyMap]

\* HashMap::insert(q, v) on the quarter map of one metric key: the new value replaces
\* the old one.
Record(qmap, q, v) == MapInsert(qmap, q, v)

\* A faulty variant: it records the period of an observation that lacks its value.
InsertItemLoose(st, metric, currency, item) ==
    IF item.fiscal_period # None
    THEN LET q == item.fiscal_period[1]
             metric_key == MetricKey(metric, currency)
         IN  [quarter_set |-> st.quarter_set \cup {q},
              metric_map |->
                  IF item.value = None THEN st.metric_map
                  ELSE MapInsert(st.metric_map, metric_key,
                                 Record(MapGet(st.metric_map, metric_key, EmptyMap), q,
                                        Billions(item.value[1])))]
    ELSE st

\* The body of "for item in units": lines 1039-1045.
InsertItem(st, metric, currency, item) ==
    IF item.fiscal_period # None /\ item.value # None
    THEN LET q == item.fiscal_period[1]
             val == item.value[1]
             metric_key == MetricKey(metric, currency)
         IN  [quarter_set |-> st.quarter_set \cup {q},
              metric_map |->
                  MapInsert(st.metric_map, metric_key,
                            Record(MapGet(st.metric_map, metric_key, EmptyMap), q,
                                   Billions(val)))]
    ELSE st

RECURSIVE InsertItems(_, _, _, _)
\* "for item in units": the observations of one list, in document order.
InsertItems(st, metric, currency, units) ==
    IF units = <<>> THEN st
    ELSE InsertItems(InsertItem(st, metric, currency, Head(units)), metric, currency,
                     Tail(units))

\* The (metric, unit) pairs of a taxonomy.
Pairs(us_gaap) == UNION {{<<m, u>> : u \in DOMAIN us_gaap[m]} : m \in DOMAIN us_gaap}

\* The orders in which the two nested loops over the HashMaps can visit the pairs:
\* all units of one metric before the next metric.
PairOrders(us_gaap) ==
    {s \in Perms(Pairs(us_gaap)) :
        \A i, j, k \in 1..Len(s) : (i < j /\ j < k /\ s[i][1] = s[k][1]) => s[j][1] = s[i][1]}

RECURSIVE ExtractPairs(_, _, _)
\* "for (metric, fact) in us_gaap { for (currency, units) in &fact.units": lines 1036-1048.
ExtractPairs(st, us_gaap, order) ==
    IF order = <<>> THEN st
    ELSE LET metric == Head(order)[1]
             currency == Head(order)[2]
         IN  ExtractPairs(InsertItems(st, metric, currency, us_gaap[metric][currency]),
                          us_gaap, Tail(order))

\* A faulty variant: it sorts ascending (a.cmp(b)).
QuarterBeforeAsc(a, b) == StrLess(a, b)

\* The comparator of quarters.sort_by(|a, b| b.cmp(a)): a goes before b.
QuarterBefore(a, b) == StrLess(b, a)

RECURSIVE SortQuarters(_)
\* quarter_set.into_iter().collect() followed by sort_by: the labels are distinct, so
\* the sorted vector does not depend on the order the set is drained in.
SortQuarters(S) ==
    IF S = {} THEN <<>>
    ELSE LET first == CHOOSE a \in S : \A b \in S \ {a} : QuarterBefore(a, b)
         IN  <<first>> \o SortQuarters(S \ {first})

\* A faulty variant: it keeps every quarter.
TakeAll(s, n) == s

\* Iterator::take(n)
Take(s, n) == SubSeq(s, 1, IF Len(s) < n THEN Len(s) ELSE n)

\* Series::new(name, values) of a string column and of an f64 column.
Utf8Series(name, values) == [name |-> name, dtype |-> "utf8", values |-> values]

F64Series(name, values) == [name |-> name, dtype |-> "f64", values |-> values]

QuarterName == <<"q", "u", "a", "r", "t", "e", "r">>

\* A faulty variant: it fills the rows from the last quarter to the first.
ColumnValuesReversed(qmap, quarters) ==
    [i \in 1..Len(quarters) |-> MapGet(qmap, quarters[Len(quarters) + 1 - i], Zero)]

\* quarters.iter().map(|q| qmap.get(q).copied().unwrap_or(0.0)).collect()
ColumnValues(qmap, quarters) ==
    [i \in 1..Len(quarters) |-> MapGet(qmap, quarters[i], Zero)]

RECURSIVE PreferredLoop(_, _, _, _)
\* "for metric in &preferred_metrics": lines 1067-1073.  acc holds columns and
\* included_metrics.
PreferredLoop(acc, metric_map, quarters, preferred_metrics) ==
    IF preferred_metrics = <<>> THEN acc
    ELSE LET metric == Head(preferred_metrics)
             next == IF metric \in DOMAIN metric_map
                     THEN [columns |->
                               Append(acc.columns,
                                      F64Series(metric,
                                                ColumnValues(metric_map[metric], quarters))),
                           included_metrics |-> Append(acc.included_metrics, metric)]
                     ELSE acc
         IN  PreferredLoop(next, metric_map, quarters, Tail(preferred_metrics))

RECURSIVE OtherLoop(_, _, _, _)
\* "for (metric, qmap) in &metric_map": lines 1075-1079.
OtherLoop(acc, metric_map, quarters, order) ==
    IF order = <<>> THEN acc
    ELSE LET metric == Head(order)
             next == IF metric \in Range(acc.included_metrics) THEN acc
                     ELSE [acc EXCEPT !.columns =
                               Append(@, F64Series(metric,
                                                   ColumnValues(metric_map[metric], quarters)))]
         IN  OtherLoop(next, metric_map, quarters, Tail(order))

\* DataFrame::new(columns): an error when two columns share a name or differ in length.
DataFrameNew(columns) ==
    IF /\ \A i, j \in 1..Len(columns) : columns[i].name = columns[j].name => i = j
       /\ \A i, j \in 1..Len(columns) : Len(columns[i].values) = Len(columns[j].values)
    THEN [kind |-> "Ok", table |-> columns]
    ELSE [kind |-> "DataParsing", table |-> <<>>]

Failure(kind) == [kind |-> kind, table |-> <<>>]

\* The error of a filing index without a 10-K or 10-Q: line 1016.
NoFilingKind == "SecDataNotFound"

\* The error of a document without a period: line 1056.
NoDataKind == "SecDataNotFound"

\* The extraction of lines 1031-1049 for one iteration order of the nested HashMaps.
Extract(facts, order) ==
    LET tax == SelectedTaxonomy(facts)
    IN  IF tax = None THEN NoFacts ELSE ExtractPairs(NoFacts, tax[1], order)

\* The orders the extraction loop can take on a document.
ExtractOrders(facts) ==
    LET tax == SelectedTaxonomy(facts)
    IN  IF tax = None THEN {<<>>} ELSE PairOrders(tax[1])

\* Lines 1051-1083: the quarters, the zero-periods failure and the columns, for one
\* iteration order keys of metric_map.
BuildTable(st, keys) ==
    LET quarters == Take(SortQuarters(st.quarter_set), MaxQuarters)
        first == [columns |-> <<Utf8Series(QuarterName, quarters)>>,
                  included_metrics |-> <<>>]
        acc == OtherLoop(PreferredLoop(first, st.metric_map, quarters, keys),
                         st.metric_map, quarters, keys)
    IN  IF quarters = <<>> THEN Failure(NoDataKind)
        ELSE DataFrameNew(acc.columns)

(***************************************************************************)
(* The resolver and the fetcher: lines 972-1028.                           *)
(***************************************************************************)
\* The retries allowed by "Err(_e) if retries < 2".
RetryLimit == 2

\* The width of "{:0>10}".
PadWidth == 10

\* A faulty variant: it retries without a limit.
ShouldRetryAlways(r) == TRUE

\* A faulty variant: it allows one retry more (retries <= 2).
ShouldRetryOnceMore(r) == r <= RetryLimit

\* The guard of the retry arm: line 989.
ShouldRetry(r) == r < RetryLimit

\* The predicate of find: line 999.
TickerMatches(entry, t) == EqIgnoreAsciiCase(entry.ticker, t)

\* The cik_str of the entries find can return: values() visits the entries in an
\* arbitrary order and find returns the first match.
FoundCiks(map, t) == {map[k].cik_str : k \in {x \in DOMAIN map : TickerMatches(map[x], t)}}

\* A faulty variant: it accepts every form type that starts with "10-".
QualifiesLoose(form) == form \in {"10-K", "10-Q", "10-K/A"}

\* The predicate of position: line 1015.
Qualifies(form) == form = "10-K" \/ form = "10-Q"

HasQualifyingForm(form) == \E i \in 1..Len(form) : Qualifies(form[i])

\* A faulty variant: it reports a failure of json() as a network failure.
JsonErrorKindNetwork(out) == "Network"

\* The map_err of every json().await (lines 987, 1012, 1028): whatever made the body
\* fail, the error is DataParsing.
JsonErrorKind(out) == "DataParsing"

\* The map_err of every send().await (lines 994, 1010, 1026).
SendErrorKind(out) == "Network"

\* A faulty variant: it cuts what is longer than the width down to its last characters.
ZeroPadCut(s, width) ==
    IF Len(s) >= width THEN SubSeq(s, Len(s) - width + 1, Len(s))
    ELSE [i \in 1..width |-> IF i <= width - Len(s) THEN "0" ELSE s[i - (width - Len(s))]]

RECURSIVE ZeroPad(_, _)
\* format!("{:0>10}", s): zeros on the left up to the width, nothing cut.
ZeroPad(s, width) == IF Len(s) >= width THEN s ELSE ZeroPad(<<"0">> \o s, width)

\* An event of the call: a request, the outcome of a send or of a body, a delay.
Ev(e) == [ev |-> e, arg |-> <<>>]

Get(endpoint, id) == [ev |-> endpoint, arg |-> id]

VARIABLES
    pc,        \* the await the call is suspended at, "normalize" or "done"
    ticker,    \* the argument of the call
    retries,   \* let mut retries
    cik_map,   \* Option of the decoded bulk lookup document
    cik,       \* Option of the resolved identifier
    forms,     \* Option of company_submissions.filings.recent.form
    facts,     \* Option of facts.facts
    result,    \* the value the call returns; kind "Pending" until it does
    trace,     \* the requests, outcomes and delays of the call, in order
    df,        \* the DataFrame handed to analyze
    query,     \* the query handed to analyze
    answer,    \* the value analyze returns; kind "None" until it does
    current,   \* the invocation the executor is running: 1 or 2
    parked     \* the locals of the invocation that waits at an await; <<>> if none

vars ==
    <<pc, ticker, retries, cik_map, cik, forms, facts, result, trace, df, query, answer,
      current, parked>>

Pending == [kind |-> "Pending", table |-> <<>>]

Init ==
    /\ pc = "build_client"
    /\ ticker \in Tickers
    /\ retries = 0
    /\ cik_map = None
    /\ cik = None
    /\ forms = None
    /\ facts = None
    /\ result = Pending
    /\ trace = <<>>
    /\ df = <<>>
    /\ query = <<>>
    /\ answer = [kind |-> "None", intent |-> "none", body |-> <<>>]
    /\ current = 1
    /\ parked = <<>>

\* return Err(kind)
Return(r) ==
    /\ result' = r
    /\ pc' = "done"

\* Client::builder()...build(): lines 975-979.
BuildClient ==
    /\ pc = "build_client"
    /\ \/ /\ pc' = "lookup_send"
          /\ UNCHANGED result
       \/ Return(Failure("Network"))
    /\ UNCHANGED <<ticker, retries, cik_map, cik, forms, facts, trace, df, query, answer, current, parked>>

\* client.get(company_tickers.json).send().await and the arms on its Err: lines 984, 989-994.
LookupSend ==
    /\ pc = "lookup_send"
    /\ \E out \in SendOutcomes :
         /\ trace' = trace \o <<Ev("GET_lookup"), Ev(out)>>
         /\ IF out = "send_ok"
            THEN pc' = "lookup_json" /\ UNCHANGED <<retries, result>>
            ELSE IF ShouldRetry(retries)
            THEN pc' = "lookup_sleep" /\ retries' = retries + 1 /\ UNCHANGED result
            ELSE Return(Failure(SendErrorKind(out))) /\ UNCHANGED retries
    /\ UNCHANGED <<ticker, cik_map, cik, forms, facts, df, query, answer, current, parked>>

\* tokio::time::sleep(2 s).await; continue: lines 991-992.
LookupSleep ==
    /\ pc = "lookup_sleep"
    /\ trace' = Append(trace, Ev("sleep_2s"))
    /\ pc' = "lookup_send"
    /\ UNCHANGED <<ticker, retries, cik_map, cik, forms, facts, result, df, query, answer, current, parked>>

\* resp.json().await of the bulk lookup and the resolution of the ticker: lines 985-1001.
LookupJson ==
    /\ pc = "lookup_json"
    /\ \/ \E out \in BodyFailures :
            /\ trace' = Append(trace, Ev(out))
            /\ Return(Failure(JsonErrorKind(out)))
            /\ UNCHANGED <<cik_map, cik>>
       \/ \E map \in CikMaps :
            /\ trace' = Append(trace, Ev("body_ok"))
            /\ cik_map' = Some(map)
            /\ IF FoundCiks(map, ticker) = {}
               THEN Return(Failure("TickerNotFound")) /\ UNCHANGED cik
               ELSE /\ \E c \in FoundCiks(map, ticker) : cik' = Some(c)
                    /\ pc' = "index_send"
                    /\ UNCHANGED result
    /\ UNCHANGED <<ticker, retries, forms, facts, df, query, answer, current, parked>>

\* client.get(&filings_url).send().await: lines 1004-1010.
IndexSend ==
    /\ pc = "index_send"
    /\ \E out \in SendOutcomes :
         /\ trace' = trace \o <<Get("GET_index", ZeroPad(cik[1], PadWidth)), Ev(out)>>
         /\ IF out = "send_ok"
            THEN pc' = "index_json" /\ UNCHANGED result
            ELSE Return(Failure(SendErrorKind(out)))
    /\ UNCHANGED <<ticker, retries, cik_map, cik, forms, facts, df, query, answer, current, parked>>

\* .json().await of the filing index and the search of a 10-K or 10-Q: lines 1011-1016.
IndexJson ==
    /\ pc = "index_json"
    /\ \/ \E out \in BodyFailures :
            /\ trace' = Append(trace, Ev(out))
            /\ Return(Failure(JsonErrorKind(out)))
            /\ UNCHANGED forms
       \/ \E form \in FormLists :
            /\ trace' = Append(trace, Ev("body_ok"))
            /\ forms' = Some(form)
            /\ IF HasQualifyingForm(form)
               THEN pc' = "facts_send" /\ UNCHANGED result
               ELSE Return(Failure(NoFilingKind))
    /\ UNCHANGED <<ticker, retries, cik_map, cik, facts, df, query, answer, current, parked>>

\* client.get(&filing_url).send().await: lines 1018-1026.
FactsSend ==
    /\ pc = "facts_send"
    /\ \E out \in SendOutcomes :
         /\ trace' = trace \o <<Get("GET_facts", ZeroPad(cik[1], PadWidth)), Ev(out)>>
         /\ IF out = "send_ok"
            THEN pc' = "facts_json" /\ UNCHANGED result
            ELSE Return(Failure(SendErrorKind(out)))
    /\ UNCHANGED <<ticker, retries, cik_map, cik, forms, facts, df, query, answer, current, parked>>

\* The normalization of a decoded fact document, for every iteration order of its
\* HashMaps: lines 1031-1083.
Normalize(doc) ==
    \E order \in ExtractOrders(doc) :
      \E keys \in Perms(DOMAIN Extract(doc, order).metric_map) :
        Return(BuildTable(Extract(doc, order), keys))

\* .json().await of the fact document and its normalization: lines 1027-1083.
FactsJson ==
    /\ pc = "facts_json"
    /\ \/ \E out \in BodyFailures :
            /\ trace' = Append(trace, Ev(out))
            /\ Return(Failure(JsonErrorKind(out)))
            /\ UNCHANGED facts
       \/ \E doc \in WireDocs :
            /\ trace' = Append(trace, Ev("body_ok"))
            /\ facts' = Some(doc)
            /\ Normalize(doc)
    /\ UNCHANGED <<ticker, retries, cik_map, cik, forms, df, query, answer, current, parked>>

Next ==
    \/ BuildClient
    \/ LookupSend
    \/ LookupSleep
    \/ LookupJson
    \/ IndexSend
    \/ IndexJson
    \/ FactsSend
    \/ FactsJson

Spec == Init /\ [][Next]_vars

\* Every await of the call returns: the client's requests end in a response or, after
\* the 20 s timeout of line 976 at the latest, in an error, and the delay of line 991
\* ends after 2 s.
SpecLive == Spec /\ WF_vars(Next)

(***************************************************************************)
(* The normalizer alone, applied to every fact document of FactDocs.       *)
(***************************************************************************)
InitNorm ==
    /\ pc = "normalize"
    /\ ticker = <<"A">>
    /\ retries = 0
    /\ cik_map = None
    /\ cik = None
    /\ forms = None
    /\ facts \in {Some(d) : d \in FactDocs}
    /\ result = Pending
    /\ trace = <<>>
    /\ df = <<>>
    /\ query = <<>>
    /\ answer = [kind |-> "None", intent |-> "none", body |-> <<>>]
    /\ current = 1
    /\ parked = <<>>

\* Lines 1031-1083 applied to the document of the state.
NormalizeCall ==
    /\ pc = "normalize"
    /\ Normalize(facts[1])
    /\ UNCHANGED <<ticker, retries, cik_map, cik, forms, facts, trace, df, query, answer, current, parked>>

NextNorm == NormalizeCall

SpecNorm == InitNorm /\ [][NextNorm]_vars

(***************************************************************************)
(* The query analyzer: FinfilesAI::analyze, lines 720-888.                 *)
(***************************************************************************)
\* Largest number of words of a query.
MaxWords == 2

UpperCase ==
    <<"A", "B", "C", "D", "E", "F", "G", "H", "I", "J", "K", "L", "M",
      "N", "O", "P", "Q", "R", "S", "T", "U", "V", "W", "X", "Y", "Z">>

LowerCase ==
    <<"a", "b", "c", "d", "e", "f", "g", "h", "i", "j", "k", "l", "m",
      "n", "o", "p", "q", "r", "s", "t", "u", "v", "w", "x", "y", "z">>

\* char::to_lowercase on ASCII.
ToLowercaseChar(c) ==
    IF \E i \in 1..Len(UpperCase) : UpperCase[i] = c
    THEN LowerCase[CHOOSE i \in 1..Len(UpperCase) : UpperCase[i] = c]
    ELSE c

\* str::to_lowercase
ToLowercase(str) == [i \in 1..Len(str) |-> ToLowercaseChar(str[i])]

\* str::contains(pat): pat occurs as a substring.
Contains(str, pat) ==
    \E i \in 0..(Len(str) - Len(pat)) : SubSeq(str, i + 1, i + Len(pat)) = pat

\* f64 arithmetic, exact.
RatAdd(a, b) == Rat(a[1] * b[2] + b[1] * a[2], a[2] * b[2])

RatSub(a, b) == Rat(a[1] * b[2] - b[1] * a[2], a[2] * b[2])

RatMul(a, b) == Rat(a[1] * b[1], a[2] * b[2])

\* a / n for a length n > 0 ("as f64").
RatDivInt(a, n) == Rat(a[1], a[2] * n)

RatLess(a, b) == a[1] * b[2] < b[1] * a[2]

\* A null cell of a series.
Null == <<>>

\* ChunkedArray::into_iter().flatten(): the non-null values, in order.
Flatten(values) == SelectSeq(values, LAMBDA v : v # Null)

RECURSIVE SumSeq(_)
\* Iterator::sum::<f64>()
SumSeq(vals) == IF vals = <<>> THEN Zero ELSE RatAdd(Head(vals), SumSeq(Tail(vals)))

\* A faulty variant: it takes the first value.
LastOrZeroFirst(vals) == IF vals = <<>> THEN Zero ELSE vals[1]

\* Iterator::last().unwrap_or(0.0)
LastOrZero(vals) == IF vals = <<>> THEN Zero ELSE vals[Len(vals)]

\* "if len > 0 { sum / len as f64 } else { 0.0 }": lines 735, 848.
Average(sum, len) == IF len > 0 THEN RatDivInt(sum, len) ELSE Zero

RECURSIVE Digits(_)
\* The decimal digits of a natural number.
Digits(n) ==
    LET d == <<"0", "1", "2", "3", "4", "5", "6", "7", "8", "9">>[(n % 10) + 1]
    IN  IF n < 10 THEN <<d>> ELSE Digits(n \div 10) \o <<d>>

\* format!("{:.2}", x): two decimals, rounded to nearest, a tie to even.
Fmt2(x) ==
    LET num == Abs(x[1]) * 100
        q == num \div x[2]
        r == num % x[2]
        h == IF 2 * r > x[2] \/ (2 * r = x[2] /\ q % 2 = 1) THEN q + 1 ELSE q
        frac == Digits(h % 100)
    IN  (IF x[1] < 0 THEN <<"-">> ELSE <<>>) \o Digits(h \div 100) \o <<".">>
        \o (IF Len(frac) = 1 THEN <<"0">> ELSE <<>>) \o frac

\* Series::f64() succeeds.
IsF64(col) == col.dtype = "f64"

\* Series::utf8() succeeds.
IsUtf8(col) == col.dtype = "utf8"

\* DataFrame::column(name): the positions of the columns of that name (at most one).
ColumnAt(frame, name) == {i \in 1..Len(frame) : frame[i].name = name}

RECURSIVE Concat(_)
\* The concatenation of a sequence of sequences.
Concat(seqs) == IF seqs = <<>> THEN <<>> ELSE Head(seqs) \o Concat(Tail(seqs))

\* An answer of analyze: Ok(report) with the report's intent and content, or Err.
Report(intent, body) == [kind |-> "Ok", intent |-> intent, body |-> body]

AnalyzeErr == [kind |-> "Err", intent |-> "quarters", body |-> <<>>]

\* The line of one numeric column in the summary: lines 733-741.
SummaryLine(col) ==
    LET sum == SumSeq(Flatten(col.values))
    IN  [name |-> col.name,
         total |-> Fmt2(sum),
         avg |-> Fmt2(Average(sum, Len(col.values))),
         most_recent |-> Fmt2(LastOrZero(Flatten(col.values)))]

\* Lines 729-748.
Summary(frame) ==
    LET at == ColumnAt(frame, QuarterName)
        quarters == IF at # {} /\ IsUtf8(frame[CHOOSE i \in at : TRUE])
                    THEN Len(frame[CHOOSE i \in at : TRUE].values) ELSE 0
        numeric == SelectSeq(frame, IsF64)
    IN  Report("summary",
               [quarters |-> quarters,
                lines |-> [i \in 1..Len(numeric) |-> SummaryLine(numeric[i])]])

\* A faulty variant: the forecast is the value of the first row.
ForecastFirstRow(frame) ==
    LET numeric == SelectSeq(frame, IsF64)
    IN  Report("forecast",
               [i \in 1..Len(numeric) |->
                   [name |-> numeric[i].name,
                    forecast |-> Fmt2(IF Flatten(numeric[i].values) = <<>> THEN Zero
                                      ELSE Flatten(numeric[i].values)[1])]])

\* Lines 751-767.
Forecast(frame) ==
    LET numeric == SelectSeq(frame, IsF64)
    IN  Report("forecast",
               [i \in 1..Len(numeric) |->
                   [name |-> numeric[i].name,
                    forecast |-> Fmt2(LastOrZero(Flatten(numeric[i].values)))]])

\* vals.iter().sum() / vals.len(): line 776.
Mean(vals) == RatDivInt(SumSeq(vals), Len(vals))

\* The square of std, the population standard deviation of line 777.
Variance(vals) ==
    LET mean == Mean(vals)
        sq == [i \in 1..Len(vals) |-> RatMul(RatSub(vals[i], mean), RatSub(vals[i], mean))]
    IN  RatDivInt(SumSeq(sq), Len(vals))

\* A faulty variant: it flags a deviation of more than 1 std.
IsAnomalyOneStd(v, vals) ==
    LET dev == RatSub(v, Mean(vals))
    IN  RatLess(Variance(vals), RatMul(dev, dev))

\* A faulty variant: it flags a deviation of 2 std or more (>=).
IsAnomalyInclusive(v, vals) ==
    LET dev == RatSub(v, Mean(vals))
    IN  ~RatLess(RatMul(dev, dev), RatMul(<<4, 1>>, Variance(vals)))

\* (*v - mean).abs() > 2.0 * std, line 779: both sides are not negative, so the
\* squares compare the same way.
IsAnomaly(v, vals) ==
    LET dev == RatSub(v, Mean(vals))
    IN  RatLess(RatMul(<<4, 1>>, Variance(vals)), RatMul(dev, dev))

\* The lines of one numeric column in the anomaly report: lines 774-785.  The line
\* carries the variance in place of the std it prints.
AnomalyLines(col) ==
    LET vals == Flatten(col.values)
        flagged == SelectSeq([i \in 1..Len(vals) |-> i], LAMBDA i : IsAnomaly(vals[i], vals))
    IN  IF Len(vals) < 2 THEN <<>>
        ELSE [k \in 1..Len(flagged) |->
                 [name |-> col.name,
                  period |-> flagged[k],
                  value |-> Fmt2(vals[flagged[k]]),
                  mean |-> Fmt2(Mean(vals)),
                  variance |-> Variance(vals)]]

\* Lines 770-795.
Anomalies(frame) ==
    LET numeric == SelectSeq(frame, IsF64)
        anomaly_lines == Concat([i \in 1..Len(numeric) |-> AnomalyLines(numeric[i])])
    IN  IF anomaly_lines = <<>> THEN Report("no_anomalies", <<>>)
        ELSE Report("anomalies", anomaly_lines)

\* The synonym table of lines 816-824: (synonym, canonical).
Synonyms ==
    << <<<<"r", "e", "v", "e", "n", "u", "e">>, <<"r", "e", "v", "e", "n", "u", "e", "s">>>>,
       <<<<"n", "e", "t", " ", "i", "n", "c", "o", "m", "e">>, <<"n", "e", "t", "i", "n", "c", "o", "m", "e", "l", "o", "s", "s">>>>,
       <<<<"e", "p", "s">>, <<"e", "a", "r", "n", "i", "n", "g", "s", "p", "e", "r", "s", "h", "a", "r", "e", "d", "i", "l", "u", "t", "e", "d">>>>,
       <<<<"a", "s", "s", "e", "t", "s">>, <<"a", "s", "s", "e", "t", "s">>>>,
       <<<<"l", "i", "a", "b", "i", "l", "i", "t", "i", "e", "s">>, <<"l", "i", "a", "b", "i", "l", "i", "t", "i", "e", "s">>>>,
       <<<<"c", "a", "s", "h">>, <<"c", "a", "s", "h", "a", "n", "d", "c", "a", "s", "h", "e", "q", "u", "i", "v", "a", "l", "e", "n", "t", "s", "a", "t", "c", "a", "r", "r", "y", "i", "n", "g", "v", "a", "l", "u", "e">>>>,
       <<<<"o", "p", "e", "r", "a", "t", "i", "n", "g", " ", "c", "a", "s", "h", " ", "f", "l", "o", "w">>, <<"o", "p", "e", "r", "a", "t", "i", "n", "g", "c", "a", "s", "h", "f", "l", "o", "w">>>> >>

\* A faulty variant: it lists the quarter column among the metrics.
AvailableMetricsAll(frame) == [i \in 1..Len(frame) |-> ToLowercase(frame[i].name)]

\* available_metrics: lines 809-814.
AvailableMetrics(frame) ==
    LET others == SelectSeq(frame, LAMBDA col : col.name # QuarterName)
    IN  [i \in 1..Len(others) |-> ToLowercase(others[i].name)]

\* The first loop of the metric detection: lines 827-832.
VerbatimMetric(available_metrics, normalized_query) ==
    LET hits == {i \in 1..Len(available_metrics) :
                    Contains(normalized_query, available_metrics[i])}
    IN  IF hits = {} THEN None
        ELSE Some(available_metrics[CHOOSE i \in hits : \A j \in hits : i <= j])

\* A faulty variant: it does not ask whether the table has the canonical column.
SynonymMetricUnchecked(available_metrics, normalized_query) ==
    LET hits == {i \in 1..Len(Synonyms) : Contains(normalized_query, Synonyms[i][1])}
    IN  IF hits = {} THEN None
        ELSE Some(Synonyms[CHOOSE i \in hits : \A j \in hits : i <= j][2])

\* The second loop of the metric detection: lines 834-839.
SynonymMetric(available_metrics, normalized_query) ==
    LET hits == {i \in 1..Len(Synonyms) :
                    /\ Contains(normalized_query, Synonyms[i][1])
                    /\ Synonyms[i][2] \in Range(available_metrics)}
    IN  IF hits = {} THEN None
        ELSE Some(Synonyms[CHOOSE i \in hits : \A j \in hits : i <= j][2])

\* A faulty variant: it consults the synonym table first.
FoundMetricSynonymFirst(frame, normalized_query) ==
    LET available_metrics == AvailableMetrics(frame)
        synonym == SynonymMetric(available_metrics, normalized_query)
    IN  IF synonym # None THEN synonym
        ELSE VerbatimMetric(available_metrics, normalized_query)

\* found_metric: lines 826-840.
FoundMetric(frame, normalized_query) ==
    LET available_metrics == AvailableMetrics(frame)
        verbatim == VerbatimMetric(available_metrics, normalized_query)
    IN  IF verbatim # None THEN verbatim
        ELSE SynonymMetric(available_metrics, normalized_query)

\* The report of a found metric: lines 842-877.  The unwrap of line 843 panics when
\* no column has the metric as its lower-case name.
MetricReport(frame, metric) ==
    LET named == {i \in 1..Len(frame) : ToLowercase(frame[i].name) = metric}
        col == frame[CHOOSE i \in named : \A j \in named : i <= j]
        total == SumSeq(Flatten(col.values))
    IN  IF named = {} THEN [kind |-> "Panic", intent |-> "metric", body |-> <<>>]
        ELSE IF IsF64(col)
        THEN Report("metric",
                    [name |-> col.name,
                     periods |-> Len(col.values),
                     total |-> Fmt2(total),
                     avg |-> Fmt2(Average(total, Len(col.values))),
                     most_recent |-> Fmt2(LastOrZero(Flatten(col.values)))])
        ELSE IF IsUtf8(col)
        THEN Report("metric_values", [name |-> col.name, values |-> Flatten(col.values)])
        ELSE Report("metric_unsupported", [name |-> col.name])

\* available_list: lines 879-883.
AvailableList(available_metrics) ==
    IF available_metrics = <<>>
    THEN [text |-> "No financial metrics available.", metrics |-> <<>>]
    ELSE [text |-> "Available metrics: ", metrics |-> available_metrics]

\* Lines 879-887: the message that lists the available metrics.
Undetected(frame) == Report("undetected", AvailableList(AvailableMetrics(frame)))

\* Lines 808-887.
MetricLookup(frame, normalized_query) ==
    LET found_metric == FoundMetric(frame, normalized_query)
    IN  IF found_metric # None THEN MetricReport(frame, found_metric[1])
        ELSE Undetected(frame)

\* Lines 797-806: the list of the quarters, an Err when the column is not a string
\* column, and no answer at all (None) when the table has no quarter column.
Quarters(frame) ==
    LET at == ColumnAt(frame, QuarterName)
        series == frame[CHOOSE i \in at : TRUE]
    IN  IF at = {} THEN None
        ELSE IF IsUtf8(series) THEN Some(Report("quarters", Flatten(series.values)))
        ELSE Some(AnalyzeErr)

\* FinfilesAI::analyze
Analyze(frame, query_text) ==
    LET normalized_query == ToLowercase(query_text)
    IN  IF Contains(normalized_query, <<"r", "a", "w">>) \/ Contains(normalized_query, <<"t", "a", "b", "l", "e">>)
        THEN Report("raw", frame)
        ELSE IF \/ Contains(normalized_query, <<"s", "u", "m", "m", "a", "r", "i", "z", "e">>)
                \/ Contains(normalized_query, <<"s", "u", "m", "m", "a", "r", "y">>)
        THEN Summary(frame)
        ELSE IF \/ Contains(normalized_query, <<"f", "o", "r", "e", "c", "a", "s", "t">>)
                \/ Contains(normalized_query, <<"p", "r", "e", "d", "i", "c", "t">>)
        THEN Forecast(frame)
        ELSE IF \/ Contains(normalized_query, <<"a", "n", "o", "m", "a", "l", "y">>)
                \/ Contains(normalized_query, <<"o", "u", "t", "l", "i", "e", "r">>)
        THEN Anomalies(frame)
        ELSE IF /\ \/ Contains(normalized_query, <<"q", "u", "a", "r", "t", "e", "r">>)
                   \/ Contains(normalized_query, <<"p", "e", "r", "i", "o", "d">>)
                /\ Quarters(frame) # None
        THEN Quarters(frame)[1]
        ELSE MetricLookup(frame, normalized_query)

(***************************************************************************)
(* The tables and queries the analyzer is applied to.                      *)
(***************************************************************************)
\* Whole numbers as f64 cells.
Cells(ns) == [i \in 1..Len(ns) |-> F64(ns[i])]

QuarterColumn4 == Utf8Series(QuarterName, <<Q4, Q3, Q2, Q1>>)

QuarterColumn5 == Utf8Series(QuarterName, <<Q4, Q3, Q2, Q1, FY>>)

RevenuesUsd == F64Series(<<"r", "e", "v", "e", "n", "u", "e", "s", "_", "U", "S", "D">>, Cells(<<1, 2, 3, 4>>))

OnesAndHundred == F64Series(<<"A", "s", "s", "e", "t", "s", "_", "U", "S", "D">>, Cells(<<1, 1, 1, 1, 100>>))

FiveOnesAndHundred == F64Series(<<"A", "s", "s", "e", "t", "s", "_", "U", "S", "D">>, Cells(<<1, 1, 1, 1, 1, 100>>))

AssetsColumn == F64Series(<<"A", "s", "s", "e", "t", "s">>, <<F64(2), Zero, Rat(1, 2), Rat(-5, 4)>>)

RevenuesColumn == F64Series(<<"r", "e", "v", "e", "n", "u", "e", "s">>, <<F64(3), Null, F64(1), Null>>)

NetIncomeLossColumn == F64Series(<<"N", "e", "t", "I", "n", "c", "o", "m", "e", "L", "o", "s", "s">>, Cells(<<4, 3, 2, 1>>))

NoteColumn == Utf8Series(<<"c", "a", "s", "h">>, <<<<"x">>, <<"y">>, Null, <<"z">>>>)

CountColumn == [name |-> <<"l", "i", "a", "b", "i", "l", "i", "t", "i", "e", "s">>, dtype |-> "i64", values |-> <<1, 2, 3, 4>>]

NullThenOutlier ==
    F64Series(<<"L", "i", "a", "b", "i", "l", "i", "t", "i", "e", "s", "_", "U", "S", "D">>, <<Null>> \o Cells(<<1, 1, 1, 1, 1, 100>>))

\* Columns of no row, and of null cells alone.
NoRows == F64Series(<<"A", "s", "s", "e", "t", "s">>, <<>>)

AllNull == F64Series(<<"r", "e", "v", "e", "n", "u", "e", "s">>, <<Null, Null>>)

QuarterAsNumbers == F64Series(QuarterName, Cells(<<3, 2, 1>>))

\* The tables: none of a column, the quarter column alone, tables a normalizer could
\* have returned, tables with names the synonym table knows, tables of other column
\* types, tables without a quarter column and one whose quarter column holds numbers.
AnalyzeTables ==
    { <<>>,
      <<QuarterColumn4>>,
      <<QuarterColumn4, RevenuesUsd>>,
      <<QuarterColumn4, AssetsColumn, RevenuesColumn>>,
      <<QuarterColumn4, RevenuesColumn, NetIncomeLossColumn, NoteColumn, CountColumn>>,
      <<QuarterColumn5, OnesAndHundred>>,
      <<FiveOnesAndHundred, F64Series(<<"r", "e", "v", "e", "n", "u", "e", "s", "_", "U", "S", "D">>, Cells(<<7, 7, 7, 7, 7, 7>>))>>,
      <<AssetsColumn>>,
      <<NullThenOutlier>>,
      <<Utf8Series(QuarterName, <<>>), NoRows>>,
      <<AllNull, F64Series(AssetsColumn.name, <<Null, F64(2)>>)>>,
      <<RevenuesUsd, NoteColumn>>,
      <<QuarterAsNumbers, F64Series(AssetsColumn.name, Cells(<<5, 6, 7>>))>> }

\* The words queries are made of.
Words ==
    { <<"r", "a", "w">>, <<"T", "a", "b", "l", "e">>, <<"s", "u", "m", "m", "a", "r", "i", "z", "e">>, <<"S", "U", "M", "M", "A", "R", "Y">>, <<"f", "o", "r", "e", "c", "a", "s", "t">>, <<"p", "r", "e", "d", "i", "c", "t">>, <<"a", "n", "o", "m", "a", "l", "y">>, <<"o", "u", "t", "l", "i", "e", "r">>,
      <<"q", "u", "a", "r", "t", "e", "r">>, <<"P", "e", "r", "i", "o", "d">>, <<"r", "e", "v", "e", "n", "u", "e">>, <<"a", "s", "s", "e", "t", "s">>, <<"r", "e", "v", "e", "n", "u", "e", "s", "_", "u", "s", "d">>, <<"n", "e", "t", " ", "i", "n", "c", "o", "m", "e">>, <<"c", "a", "s", "h">>,
      <<"l", "i", "a", "b", "i", "l", "i", "t", "i", "e", "s">>, <<"h", "e", "l", "l", "o">> }

RECURSIVE Join(_)
\* The words of a sequence, one space between two.
Join(words) ==
    IF words = <<>> THEN <<>>
    ELSE IF Len(words) = 1 THEN words[1]
    ELSE words[1] \o <<" ">> \o Join(Tail(words))

\* The queries of at most MaxWords words.
Queries == {Join(w) : w \in UNION {[1..n -> Words] : n \in 0..MaxWords}}

NoAnswer == [kind |-> "None", intent |-> "none", body |-> <<>>]

InitAnalyze ==
    /\ pc = "analyze"
    /\ ticker = <<"A">>
    /\ retries = 0
    /\ cik_map = None
    /\ cik = None
    /\ forms = None
    /\ facts = None
    /\ result = Pending
    /\ trace = <<>>
    /\ df \in AnalyzeTables
    /\ query \in Queries
    /\ answer = NoAnswer
    /\ current = 1
    /\ parked = <<>>

\* FinfilesAI::analyze(df, query) returns.
AnalyzeCall ==
    /\ pc = "analyze"
    /\ answer' = Analyze(df, query)
    /\ pc' = "done"
    /\ UNCHANGED <<ticker, retries, cik_map, cik, forms, facts, result, trace, df, query, current, parked>>

NextAnalyze == AnalyzeCall

SpecAnalyze == InitAnalyze /\ [][NextAnalyze]_vars

(***************************************************************************)
(* The analyzer on the table of the normalizer: main hands the table of    *)
(* load_sec_data_for_ticker (line 1416) to the chat, which calls analyze   *)
(* on it with the text the user typed (line 1270).                         *)
(***************************************************************************)
\* A fact document with the metric names of a filing: Assets and Revenues in USD.
FiledDoc ==
    AddObs(AddObs(
        OneList("us-gaap", <<"A", "s", "s", "e", "t", "s">>, <<"U", "S", "D">>,
                <<Obs(Q1, 2000000000), Obs(Q2, 500000000), Obs(Q3, 2000000000)>>),
        "us-gaap", <<"R", "e", "v", "e", "n", "u", "e", "s">>, <<"U", "S", "D">>, Obs(Q4, 500000000)),
        "us-gaap", <<"R", "e", "v", "e", "n", "u", "e", "s">>, <<"U", "S", "D">>, Obs(Q2, 2000000000))

\* The fact documents of this specification: the seeds, the seeds with one more
\* observation, and the filing.
LoadedDocs == Extend(SeedDocs) \cup {FiledDoc}

\* The texts the user types.
LoadedQueries ==
    { <<"a", "n", "o", "m", "a", "l", "y">>, <<"s", "u", "m", "m", "a", "r", "y">>, <<"f", "o", "r", "e", "c", "a", "s", "t">>, <<"a", "s", "s", "e", "t", "s">>, <<"A", "s", "s", "e", "t", "s", "_", "U", "S", "D", " ", "r", "e", "v", "e", "n", "u", "e">>, <<"a", "_", "c">>, <<"A", "_", "B", "_", "C">>,
      <<"n", "e", "t", " ", "i", "n", "c", "o", "m", "e", " ", "a", "_", "b">> }

InitLoaded ==
    /\ pc = "normalize"
    /\ ticker = <<"A">>
    /\ retries = 0
    /\ cik_map = None
    /\ cik = None
    /\ forms = None
    /\ facts \in {Some(d) : d \in LoadedDocs}
    /\ result = Pending
    /\ trace = <<>>
    /\ df = <<>>
    /\ query \in LoadedQueries
    /\ answer = NoAnswer
    /\ current = 1
    /\ parked = <<>>

\* analyze(&data, &input_text) on the table the loader returned.
AnalyzeLoaded ==
    /\ pc = "done"
    /\ result.kind = "Ok"
    /\ df' = result.table
    /\ answer' = Analyze(result.table, query)
    /\ pc' = "answered"
    /\ UNCHANGED <<ticker, retries, cik_map, cik, forms, facts, result, trace, query,
                   current, parked>>

NextLoaded == NormalizeCall \/ AnalyzeLoaded

SpecLoaded == InitLoaded /\ [][NextLoaded]_vars

(***************************************************************************)
(* Two invocations of load_sec_data_for_ticker on one executor.  The       *)
(* future of an invocation holds its locals across an await; the executor  *)
(* runs one future at a time and may turn to the other at every await.     *)
(***************************************************************************)
\* The locals of the running invocation: lines 972-1083 declare no other state, the
\* loader is a unit struct and the function takes no self.
Context ==
    [pc |-> pc, ticker |-> ticker, retries |-> retries, cik_map |-> cik_map, cik |-> cik,
     forms |-> forms, facts |-> facts, result |-> result, trace |-> trace]

\* A faulty variant: the retry counter is one counter for both invocations.
ResumedSharingRetries(saved, running) == [saved EXCEPT !.retries = running.retries]

\* The locals an invocation continues with when the executor polls it again: the
\* ones it was suspended with.
Resumed(saved, running) == saved

\* The remote documents of the two-invocation specification: one lookup table, two
\* filing indexes, two fact documents; requests fail by a refused connection and
\* bodies by a parse failure.
ConcTickers == {<<"a", "b">>, <<"A">>}

ConcCikMaps ==
    {m \in CikMaps : DOMAIN m = {KeyNames[1]} /\ m[KeyNames[1]].ticker = <<"A", "b">>
                     /\ Len(m[KeyNames[1]].cik_str) < PadWidth}

ConcFormLists == {form \in FormLists : Len(form) = 1 /\ form[1] # "10-Q"}

ConcDocs ==
    {d \in WireDocs : DOMAIN d = {} \/ (DOMAIN d = {"us-gaap"} /\ DOMAIN d["us-gaap"] = {<<"A">>})}

ConcInputs ==
    /\ cik_map \in {None} \cup {Some(m) : m \in ConcCikMaps}
    /\ forms \in {None} \cup {Some(form) : form \in ConcFormLists}
    /\ facts \in {None} \cup {Some(d) : d \in ConcDocs}
    /\ \A i \in 1..Len(trace) : trace[i].ev \notin {"send_timeout", "body_timeout"}

InitConc ==
    /\ pc = "build_client"
    /\ ticker \in ConcTickers
    /\ retries = 0
    /\ cik_map = None
    /\ cik = None
    /\ forms = None
    /\ facts = None
    /\ result = Pending
    /\ trace = <<>>
    /\ df = <<>>
    /\ query = <<>>
    /\ answer = NoAnswer
    /\ current = 1
    /\ parked \in {[Context EXCEPT !.ticker = t] : t \in ConcTickers}

\* The running invocation takes a step of load_sec_data_for_ticker.
Run == Next /\ ConcInputs'

\* The executor leaves the running invocation at its await (or at its end) and polls
\* the other one, which has not returned yet.
Resume ==
    /\ parked.pc # "done"
    /\ LET locals == Resumed(parked, Context)
       IN  /\ pc' = locals.pc
           /\ ticker' = locals.ticker
           /\ retries' = locals.retries
           /\ cik_map' = locals.cik_map
           /\ cik' = locals.cik
           /\ forms' = locals.forms
           /\ facts' = locals.facts
           /\ result' = locals.result
           /\ trace' = locals.trace
    /\ parked' = Context
    /\ current' = 3 - current
    /\ UNCHANGED <<df, query, answer>>

NextConc == Run \/ Resume

SpecConc == InitConc /\ [][NextConc]_vars

(***************************************************************************)
(* Properties of the resolver and the fetcher, checked under Spec.         *)
(***************************************************************************)
\* The positions of the trace that hold the event e.
Positions(e) == {i \in 1..Len(trace) : trace[i].ev = e}

CountEv(e) == Cardinality(Positions(e))

Returned == pc = "done"

LastEv == IF trace = <<>> THEN "none" ELSE trace[Len(trace)].ev

\* A string with its ASCII letters in lower case.
Lowered(str) == [i \in 1..Len(str) |-> ToAsciiLowercase(str[i])]

\* The entries of a lookup document whose ticker is the typed one up to letter case.
SameTicker(map, t) == {k \in DOMAIN map : Lowered(map[k].ticker) = Lowered(t)}

\* C1: once the bulk lookup is decoded, the call returns TickerNotFound exactly when
\* no entry has the typed ticker up to letter case (the whole ticker, not a part of
\* it); it then has issued neither the filing-index nor the fact-document request,
\* and an identifier it resolves is the one of such an entry.
C1_TickerNotFound ==
    cik_map # None =>
        /\ (SameTicker(cik_map[1], ticker) = {}) <=> (result.kind = "TickerNotFound")
        /\ result.kind = "TickerNotFound" =>
              /\ Returned
              /\ cik = None
              /\ CountEv("GET_index") = 0
              /\ CountEv("GET_facts") = 0
              /\ LastEv = "body_ok"
        /\ cik # None =>
              \E k \in SameTicker(cik_map[1], ticker) : cik_map[1][k].cik_str = cik[1]

\* C1 happens: the typed ticker is a proper prefix of the ticker of every entry of a
\* lookup document with two entries, and the call has returned TickerNotFound.
C1_Witness ==
    /\ result.kind = "TickerNotFound"
    /\ cik_map # None
    /\ Cardinality(DOMAIN cik_map[1]) = 2
    /\ \A k \in DOMAIN cik_map[1] :
          /\ Len(ticker) < Len(cik_map[1][k].ticker)
          /\ Lowered(SubSeq(cik_map[1][k].ticker, 1, Len(ticker))) = Lowered(ticker)

\* C2: the bulk lookup is requested at most 3 times; every request after the first
\* directly follows one 2-second delay, which directly follows a failed send of the
\* previous request; there are as many delays as retries (one less while the delay
\* of the last retry is still to come), at most 2; and a failed send of the third
\* request makes the call return a Network error, while a failed send of the first
\* or second is followed by the delay.
C2_LookupRetry ==
    /\ CountEv("GET_lookup") <= 3
    /\ CountEv("sleep_2s") <= 2
    /\ CountEv("sleep_2s") = IF pc = "lookup_sleep" THEN retries - 1 ELSE retries
    /\ CountEv("GET_lookup") <= retries + 1
    /\ \A i \in Positions("GET_lookup") :
          i > 1 => /\ i > 3
                   /\ trace[i - 1].ev = "sleep_2s"
                   /\ trace[i - 2].ev \in SendFailures
                   /\ trace[i - 3].ev = "GET_lookup"
    /\ \A i \in Positions("sleep_2s") :
          /\ i > 2
          /\ trace[i - 1].ev \in SendFailures
          /\ trace[i - 2].ev = "GET_lookup"
    /\ \A i \in Positions("GET_lookup") :
          (i < Len(trace) /\ trace[i + 1].ev \in SendFailures) =>
              IF Cardinality({j \in Positions("GET_lookup") : j <= i}) = 3
              THEN Returned /\ result.kind = "Network" /\ Len(trace) = i + 1
              ELSE IF Len(trace) = i + 1
                   THEN pc = "lookup_sleep" /\ result = Pending
                   ELSE trace[i + 2].ev = "sleep_2s"

\* C2 happens: three requests of the bulk lookup, the third send failed too, and the
\* call has returned a Network error.
C2_Witness ==
    /\ CountEv("GET_lookup") = 3
    /\ CountEv("sleep_2s") = 2
    /\ LastEv \in SendFailures
    /\ result.kind = "Network"

\* C3 as claimed: a call that returns a Network error because the send of the
\* filing-index request failed has requested the filing index 3 times.
C3_IndexRetried ==
    (Returned /\ result.kind = "Network" /\ CountEv("GET_index") > 0
        /\ CountEv("GET_facts") = 0)
    => CountEv("GET_index") = RetryLimit + 1

\* C4: a body that fails to parse is the last event of the call: the call has
\* returned DataParsing, with no delay and no request after it, whether or not
\* retries remain.
C4_ParseFailureIsFinal ==
    \A i \in Positions("body_parse_fail") :
        /\ i = Len(trace)
        /\ Returned
        /\ result.kind = "DataParsing"

\* C4 happens: the bulk lookup was retried once, its body then failed to parse, and
\* one retry remained.
C4_Witness ==
    /\ LastEv = "body_parse_fail"
    /\ retries = 1
    /\ ShouldRetry(retries)
    /\ CountEv("GET_index") = 0
    /\ Returned

\* The positions of the requests of the trace.
Requests == Positions("GET_lookup") \cup Positions("GET_index") \cup Positions("GET_facts")

\* The stage of a request: 1 bulk lookup, 2 filing index, 3 fact document.
Stage(e) == CASE e = "GET_lookup" -> 1 [] e = "GET_index" -> 2 [] OTHER -> 3

\* C5: the requests go bulk lookup, then filing index, then fact document, each stage
\* after the body of the previous one was decoded; the fact document is requested
\* only when the decoded filing index holds a form that is exactly "10-K" or "10-Q";
\* with no such form the call has returned SecDataNotFound without requesting it.
C5_RequestOrder ==
    /\ \A i, j \in Requests : i < j => Stage(trace[i].ev) <= Stage(trace[j].ev)
    /\ CountEv("GET_index") <= 1
    /\ CountEv("GET_facts") <= 1
    /\ CountEv("GET_index") > 0 => (CountEv("GET_lookup") > 0 /\ cik_map # None)
    /\ CountEv("GET_facts") > 0 =>
          /\ CountEv("GET_index") > 0
          /\ forms # None
          /\ \E i \in 1..Len(forms[1]) : forms[1][i] \in {"10-K", "10-Q"}
    /\ (forms # None /\ \A i \in 1..Len(forms[1]) : forms[1][i] \notin {"10-K", "10-Q"}) =>
          /\ Returned
          /\ result.kind = "SecDataNotFound"
          /\ CountEv("GET_facts") = 0

\* C5 happens: the filing index holds only a form that starts with "10-K" without
\* being it, and the call has returned SecDataNotFound.
C5_Witness ==
    /\ forms = Some(<<"10-K/A">>)
    /\ result.kind = "SecDataNotFound"
    /\ CountEv("GET_index") = 1

\* C6 as claimed: a call whose last event is a timeout, of a send or of the reading
\* of a body, has returned a Network error.
C6_TimeoutIsNetwork ==
    (Returned /\ LastEv \in {"send_timeout", "body_timeout"}) => result.kind = "Network"

(***************************************************************************)
(* Properties of the normalizer, checked under SpecNorm.                   *)
(***************************************************************************)
\* The us-gaap taxonomy of a document, empty when the document has none.
UsGaapOf(doc) == IF "us-gaap" \in DOMAIN doc THEN doc["us-gaap"] ELSE EmptyMap

\* The positions of the complete observations of a list.
CompleteIn(list) ==
    {i \in 1..Len(list) : list[i].fiscal_period # None /\ list[i].value # None}

\* The positions of the complete observations of a list for the period q.
CompleteFor(list, q) == {i \in CompleteIn(list) : list[i].fiscal_period[1] = q}

\* The period labels of the complete observations of a taxonomy.
KnownPeriods(tax) ==
    UNION {{tax[pair[1]][pair[2]][i].fiscal_period[1] :
               i \in CompleteIn(tax[pair[1]][pair[2]])} : pair \in Pairs(tax)}

\* The values of the quarter column of the returned table.
QuarterColumn == result.table[1].values

\* The cell of the column named key in the row of the quarter q.
Cell(key, q) ==
    LET col == result.table[CHOOSE i \in 1..Len(result.table) : result.table[i].name = key]
        row == CHOOSE i \in 1..Len(QuarterColumn) : QuarterColumn[i] = q
    IN  col.values[row]

\* C7: a document without the taxonomy keyed "us-gaap" yields the zero-periods error
\* and no table, whatever its other taxonomies hold; and every quarter and every
\* metric column of a returned table comes from a complete us-gaap observation.
C7_OnlyUsGaap ==
    (Returned /\ facts # None) =>
        /\ "us-gaap" \notin DOMAIN facts[1] => result = Failure("SecDataNotFound")
        /\ result.kind = "Ok" =>
              /\ Range(QuarterColumn) \subseteq KnownPeriods(UsGaapOf(facts[1]))
              /\ \A i \in 2..Len(result.table) :
                    \E pair \in Pairs(UsGaapOf(facts[1])) :
                        /\ result.table[i].name = pair[1] \o <<"_">> \o pair[2]
                        /\ CompleteIn(UsGaapOf(facts[1])[pair[1]][pair[2]]) # {}

\* C7 happens: the only taxonomy is "ifrs-full", it holds complete observations of
\* two lists, and the normalizer has returned the zero-periods error.
C7_Witness ==
    /\ Returned
    /\ facts # None
    /\ DOMAIN facts[1] = {"ifrs-full"}
    /\ Cardinality(KnownPeriods(facts[1]["ifrs-full"])) >= 2
    /\ Cardinality(Pairs(facts[1]["ifrs-full"])) >= 2
    /\ result.kind = "SecDataNotFound"

\* C8 as claimed: when a list of one (metric, unit) pair holds two or more complete
\* observations of a selected quarter, the cell of the pair's metric key in that
\* quarter is the value of the last of them divided by 1e9.
C8_LastWriteWins ==
    (Returned /\ result.kind = "Ok") =>
        \A pair \in Pairs(UsGaapOf(facts[1])) :
          \A q \in Range(QuarterColumn) :
            LET list == UsGaapOf(facts[1])[pair[1]][pair[2]]
                same == CompleteFor(list, q)
                last == CHOOSE i \in same : \A j \in same : j <= i
            IN  Cardinality(same) >= 2 =>
                    Cell(MetricKey(pair[1], pair[2]), q)
                        = Rat(list[last].value[1][1], list[last].value[1][2] * 1000000000)

\* C9: a returned table starts with the quarter column, of 1 to 4 values, and every
\* column has as many values as the quarter column.
C9_TableShape ==
    result.kind = "Ok" =>
        /\ Len(result.table) >= 1
        /\ result.table[1].name = QuarterName
        /\ Len(QuarterColumn) >= 1
        /\ Len(QuarterColumn) <= 4
        /\ \A i \in 1..Len(result.table) :
              Len(result.table[i].values) = Len(QuarterColumn)

\* C9 happens: a document with five periods and two metric keys gave a table of four
\* quarters and two metric columns.
C9_Witness ==
    /\ result.kind = "Ok"
    /\ Cardinality(KnownPeriods(UsGaapOf(facts[1]))) = 5
    /\ Len(QuarterColumn) = 4
    /\ Len(result.table) = 3

\* C10: the quarter column is strictly descending in bytewise order (so without a
\* duplicate) and holds min(4, k) labels, each one a period of a complete us-gaap
\* observation and none smaller than a period left out.
C10_QuartersDescending ==
    (Returned /\ result.kind = "Ok") =>
        LET known == KnownPeriods(UsGaapOf(facts[1]))
            k == Cardinality(known)
        IN  /\ \A i \in 1..(Len(QuarterColumn) - 1) :
                  StrLess(QuarterColumn[i + 1], QuarterColumn[i])
            /\ Len(QuarterColumn) = IF k < 4 THEN k ELSE 4
            /\ Range(QuarterColumn) \subseteq known
            /\ \A x \in known \ Range(QuarterColumn) :
                  \A y \in Range(QuarterColumn) : StrLess(x, y)

\* C10 happens: five distinct periods, given out of order over two lists, and a
\* table of the four largest.
C10_Witness ==
    /\ result.kind = "Ok"
    /\ Cardinality(KnownPeriods(UsGaapOf(facts[1]))) = 5
    /\ Cardinality(Pairs(UsGaapOf(facts[1]))) >= 2
    /\ QuarterColumn = <<Q4, Q3, Q2, Q1>>

\* The metric key of a (metric, unit) pair, written out.
KeyOf(pair) == pair[1] \o <<"_">> \o pair[2]

\* The pairs of a taxonomy that hold a complete observation.
CompletePairs(tax) == {pair \in Pairs(tax) : CompleteIn(tax[pair[1]][pair[2]]) # {}}

\* The values, divided by 1e9, of the complete observations of the quarter q in the
\* lists of the pairs of a taxonomy whose metric key is key.
Recorded(tax, key, q) ==
    UNION {{Rat(tax[pair[1]][pair[2]][i].value[1][1],
                tax[pair[1]][pair[2]][i].value[1][2] * 1000000000) :
               i \in CompleteFor(tax[pair[1]][pair[2]], q)} :
           pair \in {x \in Pairs(tax) : KeyOf(x) = key}}

\* C11: the metric columns of a returned table are, one each, the metric keys of the
\* us-gaap pairs that hold a complete observation; the cell of a column in the row of
\* a selected quarter is a value recorded for that key and quarter, divided by 1e9,
\* and 0.0 when there is none; no cell is null.
C11_ColumnsAndCells ==
    (Returned /\ result.kind = "Ok") =>
        LET tax == UsGaapOf(facts[1])
            t == result.table
        IN  /\ {t[i].name : i \in 2..Len(t)} = {KeyOf(pair) : pair \in CompletePairs(tax)}
            /\ \A i, j \in 2..Len(t) : t[i].name = t[j].name => i = j
            /\ \A i \in 2..Len(t) :
                  /\ t[i].dtype = "f64"
                  /\ \A j \in 1..Len(QuarterColumn) :
                        /\ t[i].values[j] # <<>>
                        /\ IF Recorded(tax, t[i].name, QuarterColumn[j]) = {}
                           THEN t[i].values[j] = <<0, 1>>
                           ELSE t[i].values[j] \in Recorded(tax, t[i].name, QuarterColumn[j])

\* C11 happens: a table of four quarters with a column that is 0.0 in every row,
\* because the only period of its metric key is the fifth, and a column that holds 0.5.
C11_Witness ==
    /\ result.kind = "Ok"
    /\ Len(QuarterColumn) = 4
    /\ \E i \in 2..Len(result.table) :
          /\ \A j \in 1..4 : result.table[i].values[j] = <<0, 1>>
          /\ \E pair \in CompletePairs(UsGaapOf(facts[1])) : KeyOf(pair) = result.table[i].name
    /\ \E i \in 2..Len(result.table) :
          \E j \in 1..4 : result.table[i].values[j] = <<1, 2>>

\* The positions (taxonomy, metric, unit, index) of the observations of a document
\* that lack the fiscal period or the value.
IncompleteAt(doc) ==
    UNION {UNION {UNION {{<<t, m, u, i>> :
                             i \in (1..Len(doc[t][m][u])) \ CompleteIn(doc[t][m][u])} :
                         u \in DOMAIN doc[t][m]} :
                  m \in DOMAIN doc[t]} :
           t \in DOMAIN doc}

\* The document without the observation at the position at.
Without(doc, at) ==
    LET list == doc[at[1]][at[2]][at[3]]
        rest == [i \in 1..(Len(list) - 1) |-> IF i < at[4] THEN list[i] ELSE list[i + 1]]
    IN  [doc EXCEPT ![at[1]][at[2]][at[3]] = rest]

\* The normalizer can return r for the document doc.
CanReturn(doc, r) ==
    \E order \in ExtractOrders(doc) :
      \E keys \in Perms(DOMAIN Extract(doc, order).metric_map) :
        BuildTable(Extract(doc, order), keys) = r

\* C12: what the normalizer returns for a document is what it can return for the same
\* document without any one of its observations that lack the period or the value.
C12_IncompleteDropped ==
    Returned => \A at \in IncompleteAt(facts[1]) : CanReturn(Without(facts[1], at), result)

\* C12 happens: a us-gaap list holds an observation with the period Q4 and no value,
\* no complete observation has that period, and the returned table has no Q4 row.
C12_Witness ==
    /\ result.kind = "Ok"
    /\ \E at \in IncompleteAt(facts[1]) :
          /\ at[1] = "us-gaap"
          /\ facts[1][at[1]][at[2]][at[3]][at[4]] = FactUnit(Some(Q4), None)
    /\ Q4 \notin Range(QuarterColumn)
    /\ Len(QuarterColumn) = 4

\* C13 as claimed: every run of the normalizer on the document gives the table that
\* was returned, with the same columns in the same order.
C13_Deterministic ==
    Returned =>
        \A order \in ExtractOrders(facts[1]) :
          \A keys \in Perms(DOMAIN Extract(facts[1], order).metric_map) :
            BuildTable(Extract(facts[1], order), keys) = result

\* C19 as claimed: a call that fails because the filing index holds no 10-K or 10-Q
\* does not return the error kind of a document without a period.
C19_DistinctKinds ==
    (Returned /\ forms # None /\ facts = None
        /\ \A i \in 1..Len(forms[1]) : forms[1][i] \notin {"10-K", "10-Q"})
    => result.kind # NoDataKind

\* The failure of a document without a period is returned as NoDataKind.
NoDataReturned ==
    (Returned /\ facts # None /\ KnownPeriods(UsGaapOf(facts[1])) = {})
    => result.kind = NoDataKind

\* What the claim says is embedded for the identifier id: zeros on the left up to 10
\* characters when it is shorter, the identifier as it is otherwise.
Embedded(id) ==
    IF Len(id) < 10
    THEN [i \in 1..10 |-> IF i <= 10 - Len(id) THEN "0" ELSE id[i - (10 - Len(id))]]
    ELSE id

\* C24: the identifier in the path of the filing-index request and of the
\* fact-document request is the resolved identifier, padded on the left with '0' to
\* exactly 10 characters when shorter and unchanged when 10 characters or longer.
C24_PaddedIdentifier ==
    \A i \in 1..Len(trace) :
       trace[i].ev \in {"GET_index", "GET_facts"}
       => /\ cik # None
          /\ trace[i].arg = Embedded(cik[1])

\* Both requests have been sent for an identifier of 2 characters.
C24_Witness ==
    /\ Positions("GET_index") # {}
    /\ Positions("GET_facts") # {}
    /\ Len(cik[1]) = 2
    /\ \A i \in Positions("GET_facts") : Len(trace[i].arg) = 10 /\ trace[i].arg[1] = "0"

\* The values, divided by 1e9, of the complete observations of the quarter q in the
\* list of one pair of a taxonomy.
RecordedOf(tax, pair, q) ==
    {Rat(tax[pair[1]][pair[2]][i].value[1][1],
         tax[pair[1]][pair[2]][i].value[1][2] * 1000000000) :
        i \in CompleteFor(tax[pair[1]][pair[2]], q)}

\* C27: distinct (metric, unit) pairs of the us-gaap taxonomy have distinct metric
\* keys; every pair with a complete observation has a column of its own, and a cell
\* of that column holds a value of that pair's own observations, or 0.0 when the pair
\* has none for the quarter.
C27_DistinctKeys ==
    (Returned /\ result.kind = "Ok") =>
        LET tax == UsGaapOf(facts[1])
        IN  /\ \A p1, p2 \in Pairs(tax) :
                  p1 # p2 => MetricKey(p1[1], p1[2]) # MetricKey(p2[1], p2[2])
            /\ Len(result.table) - 1 = Cardinality(CompletePairs(tax))
            /\ \A pair \in CompletePairs(tax) :
                  \A q \in Range(QuarterColumn) :
                     IF RecordedOf(tax, pair, q) = {}
                     THEN Cell(MetricKey(pair[1], pair[2]), q) = Zero
                     ELSE Cell(MetricKey(pair[1], pair[2]), q) \in RecordedOf(tax, pair, q)

\* C30: every call ends with a table or an error, after at most 5 requests (at most 3
\* for the bulk lookup, at most 1 for the filing index, at most 1 for the fact
\* document) and at most 2 retry delays, whatever the remote side answers.
C30_Terminates ==
    /\ [](/\ CountEv("GET_lookup") <= 3
          /\ CountEv("GET_index") <= 1
          /\ CountEv("GET_facts") <= 1
          /\ CountEv("GET_lookup") + CountEv("GET_index") + CountEv("GET_facts") <= 5
          /\ CountEv("sleep_2s") <= 2)
    /\ <>(pc = "done" /\ result.kind # "Pending")

\* A call has ended after 5 requests and 2 delays.
C30_Witness ==
    /\ pc = "done"
    /\ result.kind # "Pending"
    /\ CountEv("GET_lookup") = 3
    /\ CountEv("GET_index") = 1
    /\ CountEv("GET_facts") = 1
    /\ CountEv("sleep_2s") = 2

(***************************************************************************)
(* Properties of the query analyzer, checked under SpecAnalyze.            *)
(***************************************************************************)
\* analyze has returned.
Answered == answer.kind # "None"

\* The lower-cased query contains the word.
Has(word) == Contains(ToLowercase(query), word)

\* The number of the earliest rule a keyword of which the query contains; 6, the
\* metric lookup, when it contains none.
EarliestRule ==
    IF Has(<<"r", "a", "w">>) \/ Has(<<"t", "a", "b", "l", "e">>) THEN 1
    ELSE IF Has(<<"s", "u", "m", "m", "a", "r", "i", "z", "e">>) \/ Has(<<"s", "u", "m", "m", "a", "r", "y">>) THEN 2
    ELSE IF Has(<<"f", "o", "r", "e", "c", "a", "s", "t">>) \/ Has(<<"p", "r", "e", "d", "i", "c", "t">>) THEN 3
    ELSE IF Has(<<"a", "n", "o", "m", "a", "l", "y">>) \/ Has(<<"o", "u", "t", "l", "i", "e", "r">>) THEN 4
    ELSE IF Has(<<"q", "u", "a", "r", "t", "e", "r">>) \/ Has(<<"p", "e", "r", "i", "o", "d">>) THEN 5
    ELSE 6

\* The rule an answer comes from.
RuleOf(intent) ==
    CASE intent = "raw" -> 1
      [] intent = "summary" -> 2
      [] intent = "forecast" -> 3
      [] intent \in {"anomalies", "no_anomalies"} -> 4
      [] intent = "quarters" -> 5
      [] OTHER -> 6

\* C14: the answer comes from the earliest rule, in the order raw/table,
\* summarize/summary, forecast/predict, anomaly/outlier, quarter/period, metric lookup,
\* a keyword of which the lower-cased query contains.
C14_FirstMatchWins == Answered => RuleOf(answer.intent) = EarliestRule

\* The lines of the anomaly report that are about the column of that name.
FlaggedPeriods(name) ==
    {answer.body[i].period : i \in {j \in 1..Len(answer.body) : answer.body[j].name = name}}

\* C15: for a numeric column holding [1, 1, 1, 1, 100] the anomaly report flags the
\* value 100, period 5, and none of the other four values.
C15_FlagsHundred ==
    (Answered /\ EarliestRule = 4 /\ \E i \in 1..Len(df) : df[i] = OnesAndHundred)
    => /\ answer.intent = "anomalies"
       /\ FlaggedPeriods(OnesAndHundred.name) = {5}

\* C16: for a table with the numeric column revenues_USD holding [1, 2, 3, 4] the
\* query "revenue" reports that column with total 10.00, average 2.50 and most recent
\* 4.00.
C16_RevenueReport ==
    (Answered /\ query = <<"r", "e", "v", "e", "n", "u", "e">> /\ \E i \in 1..Len(df) : df[i] = RevenuesUsd)
    => /\ answer.intent = "metric"
       /\ answer.body.name = RevenuesUsd.name
       /\ answer.body.total = <<"1", "0", ".", "0", "0">>
       /\ answer.body.avg = <<"2", ".", "5", "0">>
       /\ answer.body.most_recent = <<"4", ".", "0", "0">>

\* The lower-cased names of the columns other than quarter, in column order.
MetricNamesOf(frame) ==
    LET at == SelectSeq([i \in 1..Len(frame) |-> i], LAMBDA i : frame[i].name # QuarterName)
    IN  [k \in 1..Len(at) |-> ToLowercase(frame[at[k]].name)]

\* The query names a column, or a synonym of a column the table has.
MatchesMetric ==
    \/ \E i \in 1..Len(MetricNamesOf(df)) : Has(MetricNamesOf(df)[i])
    \/ \E i \in 1..Len(Synonyms) :
          /\ Has(Synonyms[i][1])
          /\ \E k \in 1..Len(MetricNamesOf(df)) : MetricNamesOf(df)[k] = Synonyms[i][2]

\* C17: a query with no command word that matches no column name and no applicable
\* synonym gets the "could not detect" message, which lists the lower-cased names of
\* all columns except quarter, or says that there are no metrics when there is none.
C17_CouldNotDetect ==
    (Answered /\ EarliestRule = 6 /\ ~MatchesMetric)
    => /\ answer.kind = "Ok"
       /\ answer.intent = "undetected"
       /\ answer.body.metrics = MetricNamesOf(df)
       /\ (answer.body.text = "No financial metrics available.") <=> (MetricNamesOf(df) = <<>>)

\* A query of one word that no rule knows, on a table with a quarter column and
\* metric columns, has been answered.
C17_Witness ==
    /\ Answered
    /\ EarliestRule = 6
    /\ ~MatchesMetric
    /\ query = <<"h", "e", "l", "l", "o">>
    /\ ColumnAt(df, QuarterName) # {}
    /\ Len(MetricNamesOf(df)) >= 2
    /\ answer.intent = "undetected"

\* C18: a query whose earliest keyword is quarter or period, on a table without a
\* quarter column, gets an Err.
C18_MissingQuarterIsError ==
    (Answered /\ EarliestRule = 5 /\ ColumnAt(df, QuarterName) = {})
    => answer.kind = "Err"

\* The values of a column: its cells that are not null, in column order.
ValuesOf(col) == SelectSeq(col.values, LAMBDA v : v # Null)

\* n * v - (the sum of vals), for the n = Len(vals) values: n times the deviation of
\* v from the population mean.
ScaledDeviation(v, vals) == RatSub(RatMul(F64(Len(vals)), v), SumSeq(vals))

\* |v - mean| > 2 * std for the population mean and standard deviation of vals,
\* cleared of the division and the root: n * (n*v - S)^2 > 4 * sum_i (n*v_i - S)^2.
DeviatesByMoreThanTwoStd(v, vals) ==
    LET squares == [i \in 1..Len(vals) |->
                       RatMul(ScaledDeviation(vals[i], vals), ScaledDeviation(vals[i], vals))]
    IN  RatLess(RatMul(<<4, 1>>, SumSeq(squares)),
                RatMul(F64(Len(vals)),
                       RatMul(ScaledDeviation(v, vals), ScaledDeviation(v, vals))))

\* The (column name, position) pairs the claim says are reported.
ExpectedAnomalies ==
    UNION {{<<df[c].name, i>> :
              i \in {j \in 1..Len(ValuesOf(df[c])) :
                        /\ Len(ValuesOf(df[c])) >= 2
                        /\ DeviatesByMoreThanTwoStd(ValuesOf(df[c])[j], ValuesOf(df[c]))}} :
           c \in {k \in 1..Len(df) : df[k].dtype = "f64"}}

TotalOf(col) == SumSeq(ValuesOf(col))

AverageOf(col) ==
    IF Len(col.values) = 0 THEN Zero ELSE RatDivInt(TotalOf(col), Len(col.values))

MostRecentOf(col) ==
    IF ValuesOf(col) = <<>> THEN Zero ELSE ValuesOf(col)[Len(ValuesOf(col))]

\* The positions of the numeric columns, in column order.
NumericAt(frame) == SelectSeq([i \in 1..Len(frame) |-> i], LAMBDA i : frame[i].dtype = "f64")

\* A reported line (or metric report) states the three figures of the column.
StatesFigures(line, col) ==
    /\ line.name = col.name
    /\ line.total = Fmt2(TotalOf(col))
    /\ line.avg = Fmt2(AverageOf(col))
    /\ line.most_recent = Fmt2(MostRecentOf(col))

\* C22: the summary has one line for every numeric column and none for another
\* column, and a line of the summary, like the report of a numeric metric, states the
\* sum of the column's non-null values, that sum divided by the column length (0 for
\* an empty column) and the last non-null value (0 when there is none).
C22_TotalAverageMostRecent ==
    /\ (Answered /\ EarliestRule = 2)
       => /\ answer.intent = "summary"
          /\ Len(answer.body.lines) = Len(NumericAt(df))
          /\ \A k \in 1..Len(NumericAt(df)) :
                StatesFigures(answer.body.lines[k], df[NumericAt(df)[k]])
    /\ (Answered /\ answer.intent = "metric")
       => \E c \in 1..Len(df) :
             /\ df[c].dtype = "f64"
             /\ StatesFigures(answer.body, df[c])
             /\ answer.body.periods = Len(df[c].values)

\* The summary of a table with a column of 3, null, 1, null has been returned: total
\* 4.00, average 1.00 over the 4 rows, most recent 1.00.
C22_Witness ==
    /\ Answered
    /\ EarliestRule = 2
    /\ df = <<QuarterColumn4, AssetsColumn, RevenuesColumn>>
    /\ Len(answer.body.lines) = 2
    /\ answer.body.lines[2].total = <<"4", ".", "0", "0">>
    /\ answer.body.lines[2].avg = <<"1", ".", "0", "0">>
    /\ answer.body.lines[2].most_recent = <<"1", ".", "0", "0">>

\* The answer comes from the metric lookup.
LookupRan == Answered /\ RuleOf(answer.intent) = 6

\* The least element of a non-empty set of numbers.
Least(set) == CHOOSE i \in set : \A j \in set : i <= j

\* The metric the claim says is selected: the name of the first non-quarter column
\* whose lower-cased name the query contains; with no such column, the canonical name
\* of the first synonym the query contains that is the lower-cased name of a column.
ExpectedMetric ==
    LET names == MetricNamesOf(df)
        verbatim == {k \in 1..Len(names) : Has(names[k])}
        synonym == {i \in 1..Len(Synonyms) :
                       /\ Has(Synonyms[i][1])
                       /\ \E k \in 1..Len(names) : names[k] = Synonyms[i][2]}
    IN  IF verbatim # {} THEN Some(names[Least(verbatim)])
        ELSE IF synonym # {} THEN Some(Synonyms[Least(synonym)][2])
        ELSE None

\* C23: the metric lookup selects the first non-quarter column, in column order, whose
\* lower-cased name occurs in the lower-cased query, without regard to the synonym
\* table; only with no such column it selects the canonical column of the first
\* synonym, in the listed order, that the query contains and whose canonical name is
\* exactly the lower-cased name of a column; otherwise it selects none.
C23_VerbatimBeforeSynonym ==
    LookupRan
    => IF ExpectedMetric = None THEN answer.intent = "undetected"
       ELSE /\ answer.intent \in {"metric", "metric_values", "metric_unsupported"}
            /\ ToLowercase(answer.body.name) = ExpectedMetric[1]

\* A query with the synonym "net income" of one column and the name of another
\* column has been answered with the report of the column it names.
C23_Witness ==
    /\ LookupRan
    /\ query = <<"n", "e", "t", " ", "i", "n", "c", "o", "m", "e", " ", "r", "e", "v", "e", "n", "u", "e", "s", "_", "u", "s", "d">>
    /\ df = <<QuarterColumn4, RevenuesColumn, NetIncomeLossColumn, NoteColumn, CountColumn>>
    /\ answer.intent = "metric"
    /\ answer.body.name = RevenuesColumn.name

\* The answer is the report of a metric.
IsMetricReport == answer.intent \in {"metric", "metric_values", "metric_unsupported"}

\* C29: whenever the metric lookup has selected a metric, verbatim or by a synonym,
\* the table has a column whose lower-cased name is that metric: the search of the
\* original column name finds one and its unwrap does not panic.
C29_UnwrapNeverPanics ==
    Answered
    => /\ answer.kind # "Panic"
       /\ IsMetricReport
          => \E c \in 1..Len(df) :
                /\ df[c].name = answer.body.name
                /\ ExpectedMetric = Some(ToLowercase(df[c].name))

\* A synonym has selected a column whose name is written with capitals: the query
\* "net income" is answered with the report of NetIncomeLoss.
C29_Witness ==
    /\ Answered
    /\ query = <<"n", "e", "t", " ", "i", "n", "c", "o", "m", "e">>
    /\ answer.intent = "metric"
    /\ answer.body.name = NetIncomeLossColumn.name

(***************************************************************************)
(* Properties of two concurrent invocations, checked under SpecConc.       *)
(***************************************************************************)
\* The locals of invocation c, running or suspended.
LocalsOf(c) == IF current = c THEN Context ELSE parked

\* Invocation c takes a step of the program run alone: it is the running one, stays
\* the running one, and the step is a step of load_sec_data_for_ticker on its locals.
AloneStep(c) == current = c /\ current' = c /\ Next

C25_NoAnomalyUpToFourRows ==
    (Answered /\ EarliestRule = 4 /\ \A c \in 1..Len(df) : Len(df[c].values) <= 4)
    => /\ answer.kind = "Ok"
       /\ answer.intent = "no_anomalies"
       /\ answer.body = <<>>

\* The anomaly query has been answered on a table of 4 rows with a column of three
\* equal cells and one other cell, the farthest a value can lie from the others.
C25_Witness ==
    /\ Answered
    /\ EarliestRule = 4
    /\ answer.intent = "no_anomalies"
    /\ \E c \in 2..Len(df) :
          /\ Len(df[c].values) = 4
          /\ \E i \in 1..4 :
                /\ \A j, k \in (1..4) \ {i} : df[c].values[j] = df[c].values[k]
                /\ \A j \in (1..4) \ {i} : df[c].values[j] # df[c].values[i]

\* C26: on a table of the normalizer every metric column name has an underscore and no
\* canonical name of the synonym table is the lower-cased name of a column, so the
\* synonym step selects nothing, and the answer is a metric report only when the query
\* contains the full lower-cased name of the reported column.
C26_SynonymsNeverApply ==
    Answered
    => /\ \A k \in 1..Len(MetricNamesOf(df)) : Contains(MetricNamesOf(df)[k], <<"_">>)
       /\ \A i \in 1..Len(Synonyms) :
             \A k \in 1..Len(MetricNamesOf(df)) : MetricNamesOf(df)[k] # Synonyms[i][2]
       /\ IsMetricReport
          => /\ Has(ToLowercase(answer.body.name))
             /\ \E c \in 2..Len(df) : df[c].name = answer.body.name

\* The query "assets", a synonym of the table, has been answered on the table with
\* the column Assets_USD: no metric is detected.
C26_Witness ==
    /\ Answered
    /\ query = <<"a", "s", "s", "e", "t", "s">>
    /\ \E c \in 2..Len(df) : df[c].name = <<"A", "s", "s", "e", "t", "s", "_", "U", "S", "D">>
    /\ answer.intent = "undetected"

\* The number of rows of the analyzed table of the normalizer.
LastRow == Len(df[1].values)

\* C28: on a table of the normalizer the value reported as the most recent by the
\* summary and by the metric report, and as the forecast by the forecast, is the cell
\* of the last row, and the last row is the row of the least, the oldest, quarter
\* label of the table, the greatest label being in the first row.
C28_MostRecentIsLastRow ==
    Answered
    => /\ \A i \in 1..LastRow :
             /\ i # LastRow => StrLess(df[1].values[LastRow], df[1].values[i])
             /\ i # 1 => StrLess(df[1].values[i], df[1].values[1])
       /\ EarliestRule = 2
          => /\ Len(answer.body.lines) = Len(df) - 1
             /\ \A k \in 1..(Len(df) - 1) :
                   answer.body.lines[k].most_recent = Fmt2(df[k + 1].values[LastRow])
       /\ EarliestRule = 3
          => /\ Len(answer.body) = Len(df) - 1
             /\ \A k \in 1..(Len(df) - 1) :
                   answer.body[k].forecast = Fmt2(df[k + 1].values[LastRow])
       /\ answer.intent = "metric"
          => \E c \in 2..Len(df) :
                /\ df[c].name = answer.body.name
                /\ answer.body.most_recent = Fmt2(df[c].values[LastRow])

\* The forecast has been answered on the table of the filing, whose Revenues column
\* holds 0.5 in the first row, Q4, and 0.0 in the last row, Q1: the forecast is 0.00.
C28_Witness ==
    /\ Answered
    /\ EarliestRule = 3
    /\ df[1].values = <<Q4, Q3, Q2, Q1>>
    /\ \E k \in 1..Len(answer.body) :
          /\ answer.body[k].name = <<"R", "e", "v", "e", "n", "u", "e", "s", "_", "U", "S", "D">>
          /\ df[k + 1].values[1] = Rat(1, 2)
          /\ df[k + 1].values[4] = Zero
          /\ answer.body[k].forecast = <<"0", ".", "0", "0">>

====
